---- MODULE Spec2Model ----
(***************************************************************************)
(* Model of fluence.js: the Web3StarkSigner (key derivation, Pedersen      *)
(* hash chain, signature), the TimestampNonce provider, the StarkWallet    *)
(* that couples them, parseN, and the FluenceClient / Fluence operations   *)
(* that sign a vector and hand the result to the HTTP transport.           *)
(*                                                                         *)
(* Texts (JavaScript strings) are sequences of one-character strings.      *)
(* Field elements (bn.js BN values) are integers.  The third-party         *)
(* primitives (pedersen, hdkey, grindKey, the STARK curve and its          *)
(* signature) are replaced by small stand-ins with the same algebraic      *)
(* shape: an injective non-commutative pairing for the hash, and a         *)
(* DSA-style signature over a prime-order group for the curve.             *)
(***************************************************************************)
EXTENDS Integers, Sequences, FiniteSets, TLC

VARIABLES clock, bnVersion, calls, op, nonceLog, parseIn, parseOut

vars == <<clock, bnVersion, calls, op, nonceLog, parseIn, parseOut>>

(***************************************************************************)
(* Bounds                                                                  *)
(***************************************************************************)
MaxLen == 2        \* longest message vector handed directly to sign
MaxClock == 2      \* the clock advances at most this many half seconds
MaxNonces == 3     \* nonce() calls recorded per wallet
MaxText == 3       \* longest text handed to parseN

(***************************************************************************)
(* Texts and the bn.js codec                                               *)
(***************************************************************************)
DecDigits == <<"0", "1", "2", "3", "4", "5", "6", "7", "8", "9">>
HexDigits == DecDigits \o <<"a", "b", "c", "d", "e", "f">>

DecChars == {DecDigits[i] : i \in 1..10}
HexChars == {HexDigits[i] : i \in 1..16}

\* String.prototype.toLowerCase on one character
LowerChar(c) ==
  CASE c = "A" -> "a" [] c = "B" -> "b" [] c = "C" -> "c" [] c = "D" -> "d"
    [] c = "E" -> "e" [] c = "F" -> "f" [] c = "X" -> "x" [] OTHER -> c

toLowerCase(s) == [i \in 1..Len(s) |-> LowerChar(s[i])]

\* s.startsWith('0x')
startsWith0x(s) == Len(s) >= 2 /\ s[1] = "0" /\ s[2] = "x"

\* s.slice(2)
slice2(s) == IF Len(s) <= 2 THEN <<>> ELSE SubSeq(s, 3, Len(s))

\* number.toString().replace(/\s+/g, '') in the BN constructor
StripSpace(s) == SelectSeq(s, LAMBDA c : c /= " ")

\* value of a digit character in the given base, -1 when it is not one
DigitValue(c, base) ==
  LET lc == LowerChar(c)
      hits == {i \in 1..base : HexDigits[i] = lc}
  IN IF hits = {} THEN -1 ELSE (CHOOSE i \in hits : TRUE) - 1

\* what bn.js 4.x accumulates for a character it does not validate:
\* charCode - 48 through the 'a' / 'A' / digit branches of parseBase, and
\* through the "& 0xf" branch of parseHex
UncheckedValue(c, base) ==
  IF DigitValue(c, 16) >= 0 THEN DigitValue(c, 16)
  ELSE IF base = 16
       THEN CASE c = "g" -> 7 [] c = "x" -> 8 [] c = "X" -> 8
              [] c = "-" -> 13 [] OTHER -> 0
       ELSE CASE c = "g" -> 16 [] c = "x" -> 33 [] c = "X" -> 33
              [] c = "-" -> -3 [] OTHER -> 0

RECURSIVE Positional(_, _, _)
Positional(s, base, acc) ==
  IF s = <<>> THEN acc
  ELSE Positional(Tail(s), base,
         acc * base + (IF DigitValue(Head(s), base) >= 0
                       THEN DigitValue(Head(s), base)
                       ELSE UncheckedValue(Head(s), base)))

AllDigits(s, base) == \A i \in 1..Len(s) : DigitValue(s[i], base) >= 0

\* new BN(text, base): the set of outcomes over the bn.js builds.  The text
\* is stripped of white space, a leading '-' sets the sign, an empty digit
\* string is 0; an invalid character throws in bn.js 5.x and is folded into
\* the value unchecked in bn.js 4.x.
NewBN(text, base, version) ==
  LET t == StripSpace(text)
      neg == t /= <<>> /\ t[1] = "-"
      digits == IF neg THEN Tail(t) ELSE t
      mag == Positional(digits, base, 0)
  IN IF ~AllDigits(digits, base) /\ version = 5
     THEN [ok |-> FALSE, val |-> 0, err |-> "Invalid character"]
     ELSE [ok |-> TRUE, val |-> IF neg THEN 0 - mag ELSE mag, err |-> "none"]

\* parseN, as the build with the given bn.js version computes it
parseN(s, version) ==
  IF startsWith0x(toLowerCase(s)) THEN NewBN(slice2(s), 16, version)
  ELSE NewBN(s, 10, version)

RECURSIVE Render(_, _)
Render(n, base) ==
  IF n < base THEN <<HexDigits[n + 1]>>
  ELSE Render(n \div base, base) \o <<HexDigits[(n % base) + 1]>>

\* String(bn) and `${bn}`: BN.prototype.toString(10)
String(n) == IF n < 0 THEN <<"-">> \o Render(0 - n, 10) ELSE Render(n, 10)

\* JSON.stringify of a BN inside a request body: BN.prototype.toJSON, which
\* is toString(16) in bn.js 4.x and toString(16, 2) (even length) in 5.x
toJSON(n, version) ==
  LET h == Render(n, 16)
  IN IF version = 5 /\ Len(h) % 2 = 1 THEN <<"0">> \o h ELSE h

(***************************************************************************)
(* Stand-ins for the third-party primitives                                *)
(***************************************************************************)
\* the group replacing the STARK curve: the subgroup of order EcN of the
\* integers modulo EcP, generated by EcG (starkEc, starkEc.n, starkEc.g)
EcP == 23
EcN == 11
EcG == 2

\* width of the digest grindKey compares against (sha256 in the library)
GrindDigest == 32

\* pedersen([a, b]): an injective pairing of the naturals that never is 0
pedersen(a, b) == ((a + b) * (a + b + 1)) \div 2 + b + 1

RECURSIVE PowMod(_, _, _)
PowMod(b, e, m) == IF e = 0 THEN 1 % m ELSE (b * PowMod(b, e - 1, m)) % m

\* inverse modulo the prime group order
InvModN(a) == PowMod(a % EcN, EcN - 2, EcN)

\* getAccountPath(layer, application, ethAddress, index) with the clock as
\* the index
getAccountPathClock(layer, application, address, index) ==
  <<layer, application, address, clock>>

\* getAccountPath(layer, application, ethAddress, index)
getAccountPath(layer, application, address, index) ==
  <<layer, application, address, index>>

\* hdkey.fromMasterSeed(seed).derivePath(path).getWallet().getPrivateKeyString()
hdDerive(seed, path) ==
  (seed * 7 + path[1] * 3 + path[2] * 5 + path[3] * 11 + path[4] * 13) % 97

\* the digest of (key, index) inside grindKey; like the real digest for all
\* practical purposes, it is never a multiple of the group order
hashKeyWithIndex(key, i) == (1 + 3 * ((key * 5 + i * 7) % EcN)) % GrindDigest

RECURSIVE grindFrom(_, _, _)
grindFrom(key, limit, i) ==
  LET maxAllowedVal == GrindDigest - (GrindDigest % limit)
      k == hashKeyWithIndex(key, i)
  IN IF k >= maxAllowedVal THEN grindFrom(key, limit, i + 1) ELSE k % limit

\* grindKey(derived, starkEc.n)
grindKey(key, limit) == grindFrom(key, limit, 0)

\* starkEc.keyFromPrivate(priv).getPublic().getX()
getPublicX(priv) == PowMod(EcG, priv, EcP)

\* the deterministic signature of the digest z under the private scalar:
\* r = (g^k mod p) mod n, s = k^-1 (z + r priv) mod n, with the next k
\* taken while r or s is 0
RECURSIVE ecSignFrom(_, _, _)
ecSignFrom(priv, z, k) ==
  LET r == PowMod(EcG, k, EcP) % EcN
      s == (InvModN(k) * (z + r * priv)) % EcN
  IN IF r = 0 \/ s = 0
     THEN ecSignFrom(priv, z, (k % (EcN - 1)) + 1)
     ELSE [r |-> r, s |-> s]

ecSign(priv, z) == ecSignFrom(priv, z % EcN, ((priv + z) % (EcN - 1)) + 1)

\* verify(signature, publicKey, digest)
ecVerify(sig, pub, z) ==
  LET w == InvModN(sig.s)
      u1 == ((z % EcN) * w) % EcN
      u2 == (sig.r * w) % EcN
  IN /\ sig.r \in 1..(EcN - 1)
     /\ sig.s \in 1..(EcN - 1)
     /\ ((PowMod(EcG, u1, EcP) * PowMod(pub, u2, EcP)) % EcP) % EcN = sig.r

\* sign(kp, msgHash) of the library: msgHash is the text of the digest
\* handed over by the caller, read back as a decimal numeral
starkSign(priv, msgHash) == ecSign(priv, Positional(msgHash, 10, 0))

\* message.reduce(...): the vector folded from its first element
RECURSIVE reduceLeft(_, _)
reduceLeft(message, h) ==
  IF message = <<>> THEN h
  ELSE reduceLeft(Tail(message), pedersen(Head(message), h))

\* message.reduceRight((h, n) => pedersen([n, h]), new BN(0)): the
\* accumulator runs over the indices from the last to the first
RECURSIVE reduceRightFrom(_, _, _)
reduceRightFrom(message, i, h) ==
  IF i = 0 THEN h
  ELSE reduceRightFrom(message, i - 1, pedersen(message[i], h))

reduceRight(message, h) == reduceRightFrom(message, Len(message), h)

(***************************************************************************)
(* The environment: wallets (ethers Signer) and signer instances           *)
(***************************************************************************)
\* getAddress() of the two ethers Signers
Address == [alice |-> 1, bob |-> 2]

\* the Web3StarkSigner instances: (signer, layer, application, message)
StarkSigners ==
  << [signer |-> "alice", layer |-> 1, application |-> 1, message |-> "m1"],
     [signer |-> "bob", layer |-> 1, application |-> 2, message |-> "m2"] >>

\* signatures a wallet may return for the challenge, as utils.splitSignature
\* splits them
ChallengeSignatures == { [r |-> 3, s |-> 5], [r |-> 4, s |-> 9] }
NoSignature == [r |-> 0, s |-> 0]

\* errors a wallet request may reject with
WalletErrors == {"user rejected", "unavailable"}
AddressErrors == {"unknown account"}

\* field elements handed directly to sign
Elements == {1, 2}

RECURSIVE VectorsOfLen(_)
VectorsOfLen(n) ==
  IF n = 0 THEN {<<>>}
  ELSE {<<e>> \o v : e \in Elements, v \in VectorsOfLen(n - 1)}

Vectors == UNION {VectorsOfLen(n) : n \in 0..MaxLen}

\* the callers whose calls may be in flight together: one holds the
\* Web3StarkSigner itself, one a StarkWallet that wraps it, one a second
\* StarkWallet, and one is the client operation in progress
DirectSlot == "signer"
WalletSlot == "wallet"
SecondWalletSlot == "wallet2"
ClientSlot == "client"
Slots == {DirectSlot, WalletSlot, SecondWalletSlot, ClientSlot}

\* milliseconds: Date.now() at the start, and one step of the clock
ClockStart == 1000
ClockStep == 500

NoResult == [publicKey |-> 0, r |-> 0, s |-> 0]

IdleCall ==
  [pc |-> "idle", method |-> "none", signer |-> 0, message |-> <<>>,
   challenges |-> 0, signature |-> NoSignature, address |-> 0,
   hash |-> 0, result |-> NoResult, walletErr |-> "none", err |-> "none"]

Settled(c) == c.pc \in {"idle", "done", "failed"}

(***************************************************************************)
(* Web3StarkSigner and StarkWallet                                         *)
(* A call record keeps, besides the position of the call, what the wallet  *)
(* answered (signature, address, walletErr) and the digest that was        *)
(* signed (hash), so that the outcome can be compared with them.           *)
(***************************************************************************)
\* the start of deriveKeyPair when the address is asked for before the
\* challenge and the challenge is left out
EnterDeriveKeyPairAddressFirst(method, sg, message) ==
  [IdleCall EXCEPT !.pc = "getAddress", !.method = method, !.signer = sg,
                   !.message = message]

\* the start of deriveKeyPair on a signer that keeps the challenge answer of
\* an earlier call and asks the wallet only when it has none
EnterDeriveKeyPairCached(method, sg, message) ==
  LET kept == {slot \in Slots : calls[slot].pc = "done" /\ calls[slot].signer = sg}
  IN IF kept = {}
     THEN [IdleCall EXCEPT !.pc = "signMessage", !.method = method,
                           !.signer = sg, !.message = message, !.challenges = 1]
     ELSE [IdleCall EXCEPT !.pc = "getAddress", !.method = method,
                           !.signer = sg, !.message = message,
                           !.signature = calls[CHOOSE slot \in kept : TRUE].signature]

\* the synchronous start of deriveKeyPair: this.signer.signMessage(message)
\* is requested and the call suspends on it
EnterDeriveKeyPair(method, sg, message) ==
  [IdleCall EXCEPT !.pc = "signMessage", !.method = method, !.signer = sg,
                   !.message = message, !.challenges = 1]

\* what deriveKeyPair computes after both awaits: the private scalar
DerivePrivate(sg, signature, address) ==
  LET ctx == StarkSigners[sg]
      path == getAccountPath(ctx.layer, ctx.application, address, 1)
      derived == hdDerive(signature.s, path)
  IN grindKey(derived, EcN)

\* the digest when every element is hashed with the seed on its own and the
\* hashes are added up
RECURSIVE sumOfHashes(_)
sumOfHashes(message) ==
  IF message = <<>> THEN 0
  ELSE pedersen(Head(message), 0) + sumOfHashes(Tail(message))

SignDigestUnchained(message) == sumOfHashes(message)

\* the digest when the vector is folded from its first element
SignDigestLeft(message) == reduceLeft(message, 0)

\* the digest sign computes from the message vector
SignDigest(message) == reduceRight(message, 0)

\* sign's result when the digest is handed over as hash.toString(16)
SignResultHex(priv, message) ==
  LET sig == starkSign(priv, Render(SignDigest(message), 16))
  IN [publicKey |-> getPublicX(priv), r |-> sig.r, s |-> sig.s]

\* the rest of sign once the key pair is there: the public key and the
\* signature of String(hash) under the same key pair
SignResult(priv, message) ==
  LET sig == starkSign(priv, String(SignDigest(message)))
  IN [publicKey |-> getPublicX(priv), r |-> sig.r, s |-> sig.s]

\* the rest of deriveStarkKey once the key pair is there
DeriveResult(priv) == [publicKey |-> getPublicX(priv), r |-> 0, s |-> 0]

\* a rejection caught and replaced by the core's own error
RejectedCallWrapped(c, e) ==
  [c EXCEPT !.pc = "failed", !.walletErr = e, !.err = "DerivationUnavailable"]

\* a rejected await inside deriveKeyPair: nothing catches it, the method
\* that awaited deriveKeyPair rejects with the same error
RejectedCall(c, e) == [c EXCEPT !.pc = "failed", !.walletErr = e, !.err = e]

\* Web3StarkSigner.deriveStarkKey() on signer sg
Web3StarkSigner_deriveStarkKey(slot, sg) ==
  /\ Settled(calls[slot])
  /\ calls' = [calls EXCEPT ![slot] = EnterDeriveKeyPair("deriveStarkKey", sg, <<>>)]

\* Web3StarkSigner.sign(message) on signer sg
Web3StarkSigner_sign(slot, sg, message) ==
  /\ Settled(calls[slot])
  /\ calls' = [calls EXCEPT ![slot] = EnterDeriveKeyPair("sign", sg, message)]

\* StarkWallet.deriveStarkKey(): return this._signer.deriveStarkKey()
StarkWallet_deriveStarkKey(sg) == Web3StarkSigner_deriveStarkKey(WalletSlot, sg)

\* StarkWallet.sign(message): return this._signer.sign(message)
StarkWallet_sign(sg, message) == Web3StarkSigner_sign(WalletSlot, sg, message)

\* a caller invokes deriveStarkKey() on the signer
deriveStarkKey(sg) ==
  /\ Web3StarkSigner_deriveStarkKey(DirectSlot, sg)
  /\ UNCHANGED <<clock, bnVersion, op, nonceLog, parseIn, parseOut>>

\* a caller invokes sign(message) on the signer
sign(sg, message) ==
  /\ Web3StarkSigner_sign(DirectSlot, sg, message)
  /\ UNCHANGED <<clock, bnVersion, op, nonceLog, parseIn, parseOut>>

\* a caller invokes deriveStarkKey() on a StarkWallet wrapping the signer
walletDeriveStarkKey(sg) ==
  /\ StarkWallet_deriveStarkKey(sg)
  /\ UNCHANGED <<clock, bnVersion, op, nonceLog, parseIn, parseOut>>

\* a caller invokes sign(message) on a StarkWallet wrapping the signer
walletSign(sg, message) ==
  /\ StarkWallet_sign(sg, message)
  /\ UNCHANGED <<clock, bnVersion, op, nonceLog, parseIn, parseOut>>

\* the wallet answers the challenge; deriveKeyPair goes on to getAddress()
signMessageResolves(slot, signature) ==
  /\ calls[slot].pc = "signMessage"
  /\ calls' = [calls EXCEPT ![slot].pc = "getAddress",
                            ![slot].signature = signature]
  /\ UNCHANGED <<clock, bnVersion, op, nonceLog, parseIn, parseOut>>

\* the wallet refuses the challenge
signMessageRejects(slot, e) ==
  /\ calls[slot].pc = "signMessage"
  /\ calls' = [calls EXCEPT ![slot] = RejectedCall(calls[slot], e)]
  /\ UNCHANGED <<clock, bnVersion, op, nonceLog, parseIn, parseOut>>

\* getAddress() resolves; the key pair is derived and the method returns
getAddressResolves(slot) ==
  /\ calls[slot].pc = "getAddress"
  /\ LET c == calls[slot]
         address == Address[StarkSigners[c.signer].signer]
         priv == DerivePrivate(c.signer, c.signature, address)
     IN calls' = [calls EXCEPT
          ![slot].pc = "done",
          ![slot].address = address,
          ![slot].hash = IF c.method = "sign" THEN SignDigest(c.message) ELSE 0,
          ![slot].result = IF c.method = "sign" THEN SignResult(priv, c.message)
                           ELSE DeriveResult(priv)]
  /\ UNCHANGED <<clock, bnVersion, op, nonceLog, parseIn, parseOut>>

\* getAddress() rejects
getAddressRejects(slot, e) ==
  /\ calls[slot].pc = "getAddress"
  /\ calls' = [calls EXCEPT ![slot] = RejectedCall(calls[slot], e)]
  /\ UNCHANGED <<clock, bnVersion, op, nonceLog, parseIn, parseOut>>

\* time passes
Tick ==
  /\ clock < ClockStart + MaxClock * ClockStep
  /\ clock' = clock + ClockStep
  /\ UNCHANGED <<bnVersion, calls, op, nonceLog, parseIn, parseOut>>

(***************************************************************************)
(* TimestampNonce and StarkWallet.nonce                                    *)
(***************************************************************************)
\* StarkWallet instances, each constructed with its own TimestampNonce and
\* wrapping one of the signers
Wallets == {"w1", "w2"}
WalletSigner == [w1 |-> 1, w2 |-> 2]

\* the seconds rounded to the nearest whole number instead of cut off
TimestampNonce_nextRounded(now) == (now + 500) \div 1000

\* new BN(Date.now() / 1e3) with the clock read in milliseconds: the BN
\* constructor drops the fraction of the number
TimestampNonce_next(now) == now \div 1000

\* the slot in which the calls made on each StarkWallet are recorded
WalletCall == [w1 |-> WalletSlot, w2 |-> SecondWalletSlot]

\* the vectors the callers of the two wallets sign
WalletMessages == { <<1, 2>>, <<2>> }

\* nonce() on a provider that counts, in one counter shared by all wallets,
\* the nonces handed out so far
StarkWallet_nonceShared(w, now) ==
  TimestampNonce_next(now)
    + Len(nonceLog[CHOOSE other \in Wallets : other /= w])

\* StarkWallet.nonce(): return this._nonce.next()
StarkWallet_nonce(w, now) == TimestampNonce_next(now)

\* a caller asks wallet w for a nonce; nonceLog records what was returned
nonce(w) ==
  /\ Len(nonceLog[w]) < MaxNonces
  /\ nonceLog' = [nonceLog EXCEPT ![w] = Append(@, StarkWallet_nonce(w, clock))]
  /\ UNCHANGED <<clock, bnVersion, calls, op, parseIn, parseOut>>

\* a caller invokes deriveStarkKey() on wallet w
deriveStarkKeyOn(w) ==
  /\ Web3StarkSigner_deriveStarkKey(WalletCall[w], WalletSigner[w])
  /\ UNCHANGED <<clock, bnVersion, op, nonceLog, parseIn, parseOut>>

\* a caller invokes sign(message) on wallet w
signOn(w, message) ==
  /\ Web3StarkSigner_sign(WalletCall[w], WalletSigner[w], message)
  /\ UNCHANGED <<clock, bnVersion, op, nonceLog, parseIn, parseOut>>

(***************************************************************************)
(* parseN                                                                  *)
(***************************************************************************)
ParseChars == {"0", "1", "a", "F", "x", "X", "g", "-", " "}

RECURSIVE TextsOfLen(_)
TextsOfLen(n) ==
  IF n = 0 THEN {<<>>}
  ELSE {<<c>> \o t : c \in ParseChars, t \in TextsOfLen(n - 1)}

Texts == UNION {TextsOfLen(n) : n \in 0..MaxText}

NotParsed == [ok |-> FALSE, val |-> 0, err |-> "not called"]

\* parseN(text) is called; parseOut is what it returned or threw
callParseN(text) ==
  /\ parseIn' = text
  /\ parseOut' = parseN(text, bnVersion)
  /\ UNCHANGED <<clock, bnVersion, calls, op, nonceLog>>

(***************************************************************************)
(* FluenceClient and Fluence: the operations that sign a vector and hand   *)
(* the result to the transport.  A request is a record of its endpoint,    *)
(* the signature in its query, and the texts in its path, query and body.  *)
(***************************************************************************)
Accounts == { <<"0", "x", "1">> }
Contracts == { <<"0", "x", "a">> }
NoContract == <<>>
StarkKeys == {2}
Amounts == {3, 10}
OrderIds == {7}
MetaNonces == {1}
Metadata == [name |-> <<"a">>]
TransportErrors == {"http error"}

None == [x \in {} |-> <<>>]

NoRequest ==
  [endpoint |-> "none", signature |-> <<>>, path |-> None, query |-> None,
   body |-> None]

NoArgs == [account |-> <<>>, to |-> 0, amount |-> 0, contract |-> <<>>, id |-> 0]

IdleOp ==
  [pc |-> "idle", api |-> "none", kind |-> "none", via |-> "none",
   args |-> NoArgs, nonce |-> 0 - 1, signed |-> <<>>,
   request |-> NoRequest, err |-> "none", nonceCalls |-> 0, requests |-> 0]

OpSettled == op.pc \in {"idle", "done", "failed"}

\* the part every operation shares up to its first await: the vector is
\* built (a throwing parseN ends the operation there) and sign is called,
\* on the StarkWallet (which hands it to its signer) or on the signer;
\* asked counts the calls of the nonce provider made before that
Begin(api, kind, via, sg, args, asked, n, parsed, vector) ==
  /\ OpSettled
  /\ IF \E i \in DOMAIN parsed : ~parsed[i].ok
     THEN /\ op' = [IdleOp EXCEPT !.pc = "failed", !.api = api, !.kind = kind,
                                  !.via = via, !.args = args, !.nonce = n,
                                  !.nonceCalls = asked,
                                  !.err = "Invalid character"]
          /\ UNCHANGED calls
     ELSE /\ op' = [IdleOp EXCEPT !.pc = "sign", !.api = api, !.kind = kind,
                                  !.via = via, !.args = args, !.nonce = n,
                                  !.nonceCalls = asked,
                                  !.signed = vector]
          /\ Web3StarkSigner_sign(ClientSlot, sg, vector)
  /\ UNCHANGED <<clock, bnVersion, nonceLog, parseIn, parseOut>>

\* FluenceClient.registerClient(account, wallet)
registerClient(account, w) ==
  LET n == StarkWallet_nonce(w, clock)
      a == parseN(account, bnVersion)
  IN Begin("FluenceClient", "registerClient", "StarkWallet", WalletSigner[w],
           [NoArgs EXCEPT !.account = account], 1, n, <<a>>, <<a.val, n>>)

\* FluenceClient.mint(to, tokenId, contract, wallet)
mint(to, tokenId, contract, w) ==
  LET n == StarkWallet_nonce(w, clock)
      c == parseN(contract, bnVersion)
  IN Begin("FluenceClient", "mint", "StarkWallet", WalletSigner[w],
           [NoArgs EXCEPT !.to = to, !.amount = tokenId, !.contract = contract],
           1, n, <<c>>, <<to, tokenId, c.val, n>>)

\* FluenceClient.withdraw(wallet, account, amountOrTokenId, contract?)
withdraw(w, account, amountOrTokenId, contract) ==
  LET n == StarkWallet_nonce(w, clock)
      c == parseN(IF contract = NoContract THEN <<"0">> ELSE contract, bnVersion)
      a == parseN(account, bnVersion)
  IN Begin("FluenceClient", "withdraw", "StarkWallet", WalletSigner[w],
           [NoArgs EXCEPT !.account = account, !.amount = amountOrTokenId,
                          !.contract = contract],
           1, n, <<c, a>>, <<amountOrTokenId, c.val, a.val, n>>)

\* FluenceClient.transfer(wallet, to, amountOrTokenId, contract)
transfer(w, to, amountOrTokenId, contract) ==
  LET n == StarkWallet_nonce(w, clock)
      c == parseN(contract, bnVersion)
  IN Begin("FluenceClient", "transfer", "StarkWallet", WalletSigner[w],
           [NoArgs EXCEPT !.to = to, !.amount = amountOrTokenId,
                          !.contract = contract],
           1, n, <<c>>, <<to, amountOrTokenId, c.val, n>>)

\* FluenceClient.fulfillOrder(wallet, id)
fulfillOrder(w, id) ==
  LET n == StarkWallet_nonce(w, clock)
  IN Begin("FluenceClient", "fulfillOrder", "StarkWallet", WalletSigner[w],
           [NoArgs EXCEPT !.id = id], 1, n, <<>>, <<id, n>>)

\* FluenceClient.cancelOrder(wallet, id)
cancelOrder(w, id) ==
  LET n == StarkWallet_nonce(w, clock)
  IN Begin("FluenceClient", "cancelOrder", "StarkWallet", WalletSigner[w],
           [NoArgs EXCEPT !.id = id], 1, n, <<>>, <<id, n>>)

\* FluenceClient.saveMetadata(contract, tokenId, nonce, metadata, signer):
\* the nonce is an argument
saveMetadata(contract, tokenId, n, sg) ==
  LET c == parseN(contract, bnVersion)
  IN Begin("FluenceClient", "saveMetadata", "StarkSigner", sg,
           [NoArgs EXCEPT !.amount = tokenId, !.contract = contract],
           0, n, <<c>>, <<c.val, tokenId, n>>)

\* Fluence.mint(to, tokenId, contract, signer): the nonce is the client's
Fluence_mint(to, tokenId, contract, sg) ==
  LET n == TimestampNonce_next(clock)
      c == parseN(contract, bnVersion)
  IN Begin("Fluence", "mint", "StarkSigner", sg,
           [NoArgs EXCEPT !.to = to, !.amount = tokenId, !.contract = contract],
           1, n, <<c>>, <<to, tokenId, c.val, n>>)

\* Fluence.transfer(signer, amountOrTokenId, contract, to), called with BN
\* values: the contract is read as new BN(contract?.slice(2) || 0, 16)
Fluence_transfer(sg, amountOrTokenId, contract, to) ==
  LET n == TimestampNonce_next(clock)
      c == IF slice2(contract) = <<>> THEN [ok |-> TRUE, val |-> 0, err |-> "none"]
           ELSE NewBN(slice2(contract), 16, bnVersion)
  IN Begin("Fluence", "transfer", "StarkSigner", sg,
           [NoArgs EXCEPT !.to = to, !.amount = amountOrTokenId,
                          !.contract = contract],
           1, n, <<c>>, <<to, amountOrTokenId, c.val, n>>)

\* the request an operation issues once sign has resolved with
\* [starkKey, {r, s}]
Request(o, res, version) ==
  LET sig == <<String(res.r), String(res.s)>>
      a == o.args
      starkKey == String(res.publicKey)
      nonceText == String(o.nonce)
  IN CASE o.api = "FluenceClient" /\ o.kind = "registerClient" ->
            [endpoint |-> "POST /clients", signature |-> sig, path |-> None,
             query |-> None,
             body |-> [stark_key |-> starkKey, address |-> a.account,
                       nonce |-> nonceText]]
       [] o.api = "FluenceClient" /\ o.kind = "mint" ->
            [endpoint |-> "POST /mint", signature |-> sig, path |-> None,
             query |-> None,
             body |-> [user |-> String(a.to), token_id |-> String(a.amount),
                       contract |-> a.contract, nonce |-> nonceText]]
       [] o.api = "FluenceClient" /\ o.kind = "withdraw" ->
            [endpoint |-> "POST /withdraw", signature |-> sig, path |-> None,
             query |-> None,
             body |-> [user |-> starkKey,
                       amount_or_token_id |-> String(a.amount),
                       contract |-> IF a.contract = NoContract THEN <<"0">>
                                    ELSE a.contract,
                       address |-> a.account, nonce |-> nonceText]]
       [] o.api = "FluenceClient" /\ o.kind = "transfer" ->
            [endpoint |-> "POST /transfer", signature |-> sig, path |-> None,
             query |-> None,
             body |-> [from |-> starkKey, to |-> String(a.to),
                       amount_or_token_id |-> String(a.amount),
                       contract |-> a.contract, nonce |-> nonceText]]
       [] o.api = "FluenceClient" /\ o.kind = "fulfillOrder" ->
            [endpoint |-> "POST /orders/id", signature |-> sig,
             path |-> [id |-> String(a.id)], query |-> None,
             body |-> [user |-> starkKey, nonce |-> nonceText]]
       [] o.api = "FluenceClient" /\ o.kind = "cancelOrder" ->
            [endpoint |-> "DELETE /orders/id", signature |-> sig,
             path |-> [id |-> String(a.id)], query |-> [nonce |-> nonceText],
             body |-> None]
       [] o.api = "FluenceClient" /\ o.kind = "saveMetadata" ->
            [endpoint |-> "PUT /collections/contract/tokens/token_id/_metadata",
             signature |-> sig,
             path |-> [contract |-> a.contract, token_id |-> String(a.amount)],
             query |-> None, body |-> Metadata]
       [] o.api = "Fluence" /\ o.kind = "mint" ->
            [endpoint |-> "POST /mint", signature |-> sig, path |-> None,
             query |-> None,
             body |-> [user |-> String(a.to),
                       amount_or_token_id |-> toJSON(a.amount, version),
                       contract |-> a.contract, nonce |-> nonceText]]
       [] o.api = "Fluence" /\ o.kind = "transfer" ->
            [endpoint |-> "POST /transfer", signature |-> sig, path |-> None,
             query |-> None,
             body |-> [from |-> starkKey, to |-> String(a.to),
                       amount_or_token_id |-> toJSON(a.amount, version),
                       contract |-> a.contract, nonce |-> nonceText]]

\* a rejected sign answered with a request that carries a zero key and a
\* zero signature
SignRejectedDefault(o, e) ==
  [o EXCEPT !.pc = "request", !.request = Request(o, NoResult, 5)]

\* await wallet.sign(...) rejects: the operation rejects with the error,
\* the statements after the await do not run
SignRejected(o, e) == [o EXCEPT !.pc = "failed", !.err = e]

\* the request issued without waiting for sign to resolve
signResolvedUnawaited ==
  /\ op.pc = "sign"
  /\ op' = [op EXCEPT !.pc = "request",
                      !.requests = @ + 1,
                      !.request = Request(op, calls[ClientSlot].result, bnVersion)]
  /\ UNCHANGED <<clock, bnVersion, calls, nonceLog, parseIn, parseOut>>

\* sign has resolved: the operation issues its request and awaits the reply
signResolved ==
  /\ op.pc = "sign"
  /\ calls[ClientSlot].pc = "done"
  /\ op' = [op EXCEPT !.pc = "request",
                      !.requests = @ + 1,
                      !.request = Request(op, calls[ClientSlot].result, bnVersion)]
  /\ UNCHANGED <<clock, bnVersion, calls, nonceLog, parseIn, parseOut>>

\* sign has rejected
signRejected ==
  /\ op.pc = "sign"
  /\ calls[ClientSlot].pc = "failed"
  /\ op' = SignRejected(op, calls[ClientSlot].err)
  /\ UNCHANGED <<clock, bnVersion, calls, nonceLog, parseIn, parseOut>>

\* the transport answers the request
transportResolves ==
  /\ op.pc = "request"
  /\ op' = [op EXCEPT !.pc = "done"]
  /\ UNCHANGED <<clock, bnVersion, calls, nonceLog, parseIn, parseOut>>

\* the transport fails the request
transportRejects(e) ==
  /\ op.pc = "request"
  /\ op' = [op EXCEPT !.pc = "failed", !.err = e]
  /\ UNCHANGED <<clock, bnVersion, calls, nonceLog, parseIn, parseOut>>

(***************************************************************************)
(* Specifications                                                          *)
(***************************************************************************)
BnVersions == {4, 5}

Init ==
  /\ clock = ClockStart
  /\ bnVersion \in BnVersions
  /\ calls = [slot \in Slots |-> IdleCall]
  /\ op = IdleOp
  /\ nonceLog = [w \in Wallets |-> <<>>]
  /\ parseIn = <<>>
  /\ parseOut = NotParsed

WalletSteps ==
  \/ \E slot \in Slots, signature \in ChallengeSignatures :
       signMessageResolves(slot, signature)
  \/ \E slot \in Slots, e \in WalletErrors : signMessageRejects(slot, e)
  \/ \E slot \in Slots : getAddressResolves(slot)
  \/ \E slot \in Slots, e \in AddressErrors : getAddressRejects(slot, e)

\* callers of the signer and of a wallet wrapping it
Next ==
  \/ \E sg \in DOMAIN StarkSigners : deriveStarkKey(sg)
  \/ \E sg \in DOMAIN StarkSigners, message \in Vectors : sign(sg, message)
  \/ \E sg \in DOMAIN StarkSigners : walletDeriveStarkKey(sg)
  \/ \E sg \in DOMAIN StarkSigners, message \in Vectors : walletSign(sg, message)
  \/ WalletSteps
  \/ Tick

Spec == Init /\ [][Next]_vars

\* one caller of the client operations
NextClient ==
  \/ \E account \in Accounts, w \in Wallets : registerClient(account, w)
  \/ \E to \in StarkKeys, tokenId \in Amounts, contract \in Contracts, w \in Wallets :
       mint(to, tokenId, contract, w)
  \/ \E w \in Wallets, account \in Accounts, amount \in Amounts,
        contract \in Contracts \cup {NoContract} :
       withdraw(w, account, amount, contract)
  \/ \E w \in Wallets, to \in StarkKeys, amount \in Amounts, contract \in Contracts :
       transfer(w, to, amount, contract)
  \/ \E w \in Wallets, id \in OrderIds : fulfillOrder(w, id)
  \/ \E w \in Wallets, id \in OrderIds : cancelOrder(w, id)
  \/ \E contract \in Contracts, tokenId \in Amounts, n \in MetaNonces,
        sg \in DOMAIN StarkSigners :
       saveMetadata(contract, tokenId, n, sg)
  \/ \E to \in StarkKeys, tokenId \in Amounts, contract \in Contracts,
        sg \in DOMAIN StarkSigners :
       Fluence_mint(to, tokenId, contract, sg)
  \/ \E sg \in DOMAIN StarkSigners, amount \in Amounts, contract \in Contracts,
        to \in StarkKeys :
       Fluence_transfer(sg, amount, contract, to)
  \/ signResolved
  \/ signRejected
  \/ transportResolves
  \/ \E e \in TransportErrors : transportRejects(e)
  \/ WalletSteps
  \/ Tick

SpecClient == Init /\ [][NextClient]_vars

\* callers of nonce() on the wallets
NextNonce ==
  \/ \E w \in Wallets : nonce(w)
  \/ Tick

SpecNonce == Init /\ [][NextNonce]_vars

\* callers of two StarkWallet instances, in any interleaving
NextWallets ==
  \/ \E w \in Wallets : nonce(w)
  \/ \E w \in Wallets : deriveStarkKeyOn(w)
  \/ \E w \in Wallets, message \in WalletMessages : signOn(w, message)
  \/ WalletSteps
  \/ Tick

SpecWallets == Init /\ [][NextWallets]_vars

\* callers of parseN
NextParse == \E text \in Texts : callParseN(text)

SpecParse == Init /\ [][NextParse]_vars

(***************************************************************************)
(* Properties of the signer                                                *)
(***************************************************************************)
\* the right fold of the hash chain: fold([]) = 0 and
\* fold([e] \o rest) = H(e, fold(rest))
RECURSIVE fold(_)
fold(v) == IF v = <<>> THEN 0 ELSE pedersen(Head(v), fold(Tail(v)))

SignDone(c) == c.pc = "done" /\ c.method = "sign"

\* C1: the digest a completed sign call has signed is the right fold of its
\* message vector with seed 0, the element being the first argument of the
\* hash; for the empty vector it is 0.
C1_DigestIsRightFold ==
  \A slot \in Slots :
    SignDone(calls[slot]) =>
      /\ calls[slot].hash = fold(calls[slot].message)
      /\ (calls[slot].message = <<>> => calls[slot].hash = 0)

C1_Witness ==
  /\ SignDone(calls[DirectSlot]) /\ calls[DirectSlot].message = <<1, 2>>
  /\ SignDone(calls[WalletSlot]) /\ calls[WalletSlot].message = <<>>
  /\ calls[WalletSlot].hash = 0

\* C2: two completed sign calls whose vectors are [a, b] and [b, a] with
\* a /= b have signed different digests.
C2_OrderSensitive ==
  \A s1, s2 \in Slots :
    /\ SignDone(calls[s1]) /\ SignDone(calls[s2])
    /\ Len(calls[s1].message) = 2 /\ Len(calls[s2].message) = 2
    /\ calls[s1].message[1] /= calls[s1].message[2]
    /\ calls[s2].message = <<calls[s1].message[2], calls[s1].message[1]>>
    => calls[s1].hash /= calls[s2].hash

C2_Witness ==
  /\ SignDone(calls[DirectSlot]) /\ calls[DirectSlot].message = <<1, 2>>
  /\ SignDone(calls[WalletSlot]) /\ calls[WalletSlot].message = <<2, 1>>

\* C3: two completed calls (deriveStarkKey or sign) on the same signer, hence
\* with the same wallet address and derivation context, that were given the
\* same challenge signature return the same public key.
C3_SameKeyForSameChallenge ==
  \A s1, s2 \in Slots :
    /\ calls[s1].pc = "done" /\ calls[s2].pc = "done"
    /\ calls[s1].signer = calls[s2].signer
    /\ calls[s1].signature = calls[s2].signature
    => calls[s1].result.publicKey = calls[s2].result.publicKey

C3_Witness ==
  /\ calls[DirectSlot].pc = "done" /\ calls[WalletSlot].pc = "done"
  /\ calls[DirectSlot].method = "deriveStarkKey"
  /\ calls[WalletSlot].method = "sign"
  /\ calls[DirectSlot].signer = calls[WalletSlot].signer
  /\ calls[DirectSlot].signature = calls[WalletSlot].signature
  /\ clock > ClockStart

\* C4: the signature a completed sign call returns verifies under the public
\* key returned with it against the right fold of the message vector.
C4_SignatureVerifies ==
  \A slot \in Slots :
    SignDone(calls[slot]) =>
      ecVerify([r |-> calls[slot].result.r, s |-> calls[slot].result.s],
               calls[slot].result.publicKey, fold(calls[slot].message))

C4_Witness ==
  /\ SignDone(calls[DirectSlot]) /\ Len(calls[DirectSlot].message) = 2
  /\ calls[DirectSlot].hash >= 10

FailedOnChallenge(c) == c.pc = "failed" /\ c.signature = NoSignature

\* C7: a call whose challenge the wallet refused has failed with the
\* wallet's error itself, after exactly one challenge request; so for a
\* call on the signer and for a call through a StarkWallet.
C7_ChallengeErrorUnchanged ==
  \A slot \in Slots :
    FailedOnChallenge(calls[slot]) =>
      /\ calls[slot].err = calls[slot].walletErr
      /\ calls[slot].err \in WalletErrors
      /\ calls[slot].challenges = 1
      /\ calls[slot].result = NoResult

C7_Witness ==
  /\ FailedOnChallenge(calls[DirectSlot])
  /\ calls[DirectSlot].method = "deriveStarkKey"
  /\ calls[DirectSlot].err = "user rejected"
  /\ FailedOnChallenge(calls[WalletSlot])
  /\ calls[WalletSlot].method = "sign"
  /\ calls[WalletSlot].err = "unavailable"

(***************************************************************************)
(* Properties of the nonce, of parseN and of the client operations         *)
(***************************************************************************)
\* C5: the values nonce() has returned on one wallet are pairwise different.
C5_NonceNeverRepeats ==
  \A w \in Wallets :
    \A i, j \in DOMAIN nonceLog[w] :
      i /= j => nonceLog[w][i] /= nonceLog[w][j]

OpKinds ==
  {"registerClient", "mint", "withdraw", "transfer", "fulfillOrder",
   "cancelOrder", "saveMetadata"}

Issued == op.request.endpoint /= "none"

\* the texts a request carries under the name "nonce"
NonceSent(req) ==
  {req.body[f] : f \in DOMAIN req.body \cap {"nonce"}}
    \cup {req.query[f] : f \in DOMAIN req.query \cap {"nonce"}}

\* C6: in every operation that has issued its request, the nonce is the last
\* element of the vector that was signed, and the request carries that nonce
\* together with the (r, s) of the signature over the vector.
C6_NonceSignedLastAndSent ==
  (Issued /\ op.kind \in OpKinds) =>
    /\ op.signed /= <<>>
    /\ op.signed[Len(op.signed)] = op.nonce
    /\ calls[ClientSlot].message = op.signed
    /\ op.request.signature = <<String(calls[ClientSlot].result.r),
                                String(calls[ClientSlot].result.s)>>
    /\ NonceSent(op.request) = {String(op.nonce)}

\* C8: once the sign call of an operation has failed and the operation has
\* taken notice, the operation has failed with that error and has issued no
\* request; and a request that was issued carries the key and the signature
\* of a sign call that succeeded, none of them zero.
C8_NoRequestAfterFailedSign ==
  /\ (calls[ClientSlot].pc = "failed" /\ op.pc /= "sign") =>
       /\ op.pc = "failed"
       /\ ~Issued
       /\ op.err = calls[ClientSlot].err
  /\ Issued =>
       /\ calls[ClientSlot].pc = "done"
       /\ calls[ClientSlot].result.publicKey /= 0
       /\ op.request.signature = <<String(calls[ClientSlot].result.r),
                                   String(calls[ClientSlot].result.s)>>
       /\ op.request.signature /= <<String(0), String(0)>>

C8_Witness ==
  /\ op.kind = "transfer" /\ op.api = "FluenceClient"
  /\ op.pc = "failed"
  /\ calls[ClientSlot].pc = "failed"
  /\ calls[ClientSlot].err = "user rejected"

\* a valid numeral: decimal digits, or 0x (in either case) and hex digits
IsDecimalText(t) == t /= <<>> /\ \A i \in 1..Len(t) : t[i] \in DecChars

IsHexText(t) ==
  /\ Len(t) > 2
  /\ startsWith0x(toLowerCase(t))
  /\ \A i \in 3..Len(t) : LowerChar(t[i]) \in HexChars

IsNumeral(t) == IsDecimalText(t) \/ IsHexText(t)

\* C9: parseN fails for every text that is not a valid decimal or 0x-hex
\* numeral.
C9_MalformedFails ==
  (parseOut /= NotParsed /\ ~IsNumeral(parseIn)) => ~parseOut.ok

\* the names under which a request carries field elements
FieldElementNames ==
  {"stark_key", "user", "from", "to", "token_id", "amount_or_token_id",
   "nonce", "id"}

\* a base-10 rendering of a field element: decimal digits only
IsDecimalNumeral(t) == IsDecimalText(t)

\* a 0x-prefixed lowercase hex rendering
IsHexAddress(t) ==
  /\ Len(t) > 2 /\ t[1] = "0" /\ t[2] = "x"
  /\ \A i \in 3..Len(t) : t[i] \in HexChars

AllDecimal(part) ==
  \A f \in DOMAIN part \cap FieldElementNames : IsDecimalNumeral(part[f])

ContractsHex(part) ==
  \A f \in DOMAIN part \cap {"contract"} : IsHexAddress(part[f])

\* C10: in every request issued, the stark key, nonce, token id, amount,
\* order id and the signature's r and s are base-10 numerals, and a contract
\* address is 0x-prefixed hex.
C10_FieldElementsDecimal ==
  Issued =>
    /\ \A i \in DOMAIN op.request.signature :
         IsDecimalNumeral(op.request.signature[i])
    /\ AllDecimal(op.request.path)
    /\ AllDecimal(op.request.query)
    /\ AllDecimal(op.request.body)
    /\ op.args.contract /= NoContract =>
         /\ ContractsHex(op.request.path)
         /\ ContractsHex(op.request.body)

(***************************************************************************)
(* Properties of the wallets, the signer's calls and the operations' order *)
(***************************************************************************)
\* what belongs to one wallet: the nonces it has returned and its call
OwnState(w) == <<nonceLog[w], calls[WalletCall[w]]>>

\* what a completed call on a wallet returns is made of the wallet's own
\* signer, message and challenge answer
OwnResult(w) ==
  LET c == calls[WalletCall[w]]
      pub == getPublicX(DerivePrivate(WalletSigner[w], c.signature,
                                      Address[StarkSigners[WalletSigner[w]].signer]))
  IN c.pc = "done" =>
       /\ c.signer = WalletSigner[w]
       /\ c.result.publicKey = pub
       /\ c.method = "sign" =>
            ecVerify([r |-> c.result.r, s |-> c.result.s], pub, fold(c.message))

\* a step changes the state of at most one wallet, and a nonce a wallet
\* returns is the clock's whole seconds, whatever the other wallet has done
OwnStep ==
  /\ \A w1, w2 \in Wallets :
       (w1 /= w2 /\ OwnState(w1)' /= OwnState(w1)) => OwnState(w2)' = OwnState(w2)
  /\ \A w \in Wallets :
       nonceLog[w]' /= nonceLog[w] =>
         /\ nonceLog[w]' = Append(nonceLog[w], clock \div 1000)
         /\ calls' = calls

\* C11: calls of nonce(), sign() and deriveStarkKey() on one StarkWallet
\* leave the nonces and the call of the other wallet as they are, and what a
\* wallet returns depends on its own inputs and the clock only.
C11_WalletsIndependent ==
  /\ [](\A w \in Wallets : OwnResult(w))
  /\ [][OwnStep]_vars

C11_Witness ==
  /\ Len(nonceLog["w1"]) = 1 /\ Len(nonceLog["w2"]) = 2
  /\ calls[WalletCall["w1"]].pc = "done" /\ calls[WalletCall["w1"]].method = "sign"
  /\ calls[WalletCall["w2"]].pc = "getAddress"

\* a call under way or completed has asked the wallet exactly once, and a
\* completed call returns the key derived from the answer it was given
OneChallenge(c) ==
  c.pc /= "idle" =>
    /\ c.challenges = 1
    /\ c.pc = "done" =>
         /\ c.signature \in ChallengeSignatures
         /\ c.result.publicKey =
              getPublicX(DerivePrivate(c.signer, c.signature, c.address))

\* a call that starts carries nothing over from earlier calls, and a step
\* of a call changes nothing but that call's own record
FreshStep ==
  /\ \A slot \in Slots :
       (calls[slot]' /= calls[slot] /\ calls[slot]'.pc = "signMessage") =>
         /\ calls[slot]'.signature = NoSignature
         /\ calls[slot]'.address = 0
         /\ calls[slot]'.result = NoResult
  /\ \A s1, s2 \in Slots :
       (s1 /= s2 /\ calls[s1]' /= calls[s1]) => calls[s2]' = calls[s2]
  /\ calls' /= calls => UNCHANGED <<clock, op, nonceLog>>

\* C12: every call of deriveStarkKey or sign asks the wallet for the
\* challenge signature exactly once and derives its key from that answer;
\* nothing of a call outlives it: a new call starts without signature, key
\* or result, and no call changes anything but its own record.
C12_DerivedFreshEachCall ==
  /\ [](\A slot \in Slots : OneChallenge(calls[slot]))
  /\ [][FreshStep]_vars

C12_Witness ==
  /\ calls[DirectSlot].pc = "done" /\ calls[WalletSlot].pc = "done"
  /\ calls[DirectSlot].signer = calls[WalletSlot].signer
  /\ calls[DirectSlot].signature /= calls[WalletSlot].signature
  /\ calls[DirectSlot].challenges = 1 /\ calls[WalletSlot].challenges = 1

Suspended(c) == c.pc \notin {"idle", "done", "failed"}

SuspendedOnWallet(c) ==
  Suspended(c) =>
    \/ c.pc = "signMessage" /\ c.signature = NoSignature
    \/ c.pc = "getAddress" /\ c.signature \in ChallengeSignatures

\* the step after the challenge leads to the address request or to failure,
\* the step after the address request ends the call
ResumeStep ==
  \A slot \in Slots :
    calls[slot]' /= calls[slot] =>
      /\ calls[slot].pc = "signMessage" =>
           calls[slot]'.pc \in {"getAddress", "failed"}
      /\ calls[slot].pc = "getAddress" =>
           calls[slot]'.pc \in {"done", "failed"}

NonDecreasing(log) ==
  /\ \A i, j \in DOMAIN log : i < j => log[i] <= log[j]
  /\ \A i \in DOMAIN log : log[i] * 1000 <= clock

\* a value returned is the number of whole seconds in the millisecond clock
WholeSeconds ==
  \A w \in Wallets :
    nonceLog[w]' /= nonceLog[w] =>
      \E v \in 0..(clock \div 1000) :
        /\ nonceLog[w]' = Append(nonceLog[w], v)
        /\ v * 1000 <= clock
        /\ clock < (v + 1) * 1000

\* C14: next() returns the millisecond clock divided by 1000 with the
\* fraction discarded, and with a clock that does not go backwards the
\* values returned in succession do not decrease.
C14_WholeSecondsNonDecreasing ==
  /\ [](\A w \in Wallets : NonDecreasing(nonceLog[w]))
  /\ [][WholeSeconds]_vars

C14_Witness ==
  /\ nonceLog["w1"] = <<1, 1, 2>>
  /\ clock = 2000

NonceBearingKinds ==
  {"registerClient", "mint", "withdraw", "transfer", "fulfillOrder",
   "cancelOrder"}

NonceBearing(o) == o.api = "FluenceClient" /\ o.kind \in NonceBearingKinds

\* the order of the steps as one state of a nonce-bearing operation shows it
StepsInOrder ==
  NonceBearing(op) =>
    /\ op.pc /= "idle" => op.nonceCalls = 1
    /\ op.requests <= 1
    /\ op.requests = 1 <=> Issued
    /\ op.pc \in {"request", "done"} => op.requests = 1
    /\ op.pc = "sign" =>
         /\ op.requests = 0
         /\ calls[ClientSlot].message = op.signed
         /\ op.signed[Len(op.signed)] = op.nonce
    /\ op.pc \in {"sign", "request", "done"} =>
         calls[ClientSlot].challenges = 1
    /\ Issued =>
         /\ calls[ClientSlot].pc = "done"
         /\ op.request.signature = <<String(calls[ClientSlot].result.r),
                                     String(calls[ClientSlot].result.s)>>

\* a step of an operation under way asks for no further nonce, and a step of
\* the signer (the call record changes) leaves the nonce provider alone
NoFurtherNonce ==
  /\ (NonceBearing(op) /\ op.pc \in {"sign", "request"}) =>
       /\ op'.nonceCalls = op.nonceCalls
       /\ op'.nonce = op.nonce
       /\ op'.requests \in {op.requests, op.requests + 1}
  /\ (calls' /= calls /\ op' = op) => nonceLog' = nonceLog

\* C15: in every nonce-bearing FluenceClient operation exactly one
\* wallet.nonce() call happens before the wallet challenge is requested (the
\* vector handed to sign already ends in the nonce), exactly one transport
\* request is issued and only after sign has resolved; the signing steps
\* never call the nonce provider and nonce() requests no challenge.
C15_StepsInFixedOrder ==
  /\ []StepsInOrder
  /\ [][NoFurtherNonce]_vars

C15_Witness ==
  /\ NonceBearing(op)
  /\ op.kind = "withdraw"
  /\ op.pc = "done"
  /\ op.nonceCalls = 1
  /\ op.requests = 1
  /\ calls[ClientSlot].challenges = 1

====
